---- MODULE Spec2Model ----
(***************************************************************************)
(* The two parameter-sweep scripts of the repository,                      *)
(*   variable_channel_height.py  (state record ch, actions H_...)          *)
(*   variable_water.py           (state record wt, actions W_...)          *)
(* Each script is a straight-line program with one sweep loop.  The two    *)
(* scripts are independent programs; they are composed by interleaving so  *)
(* that statements comparing them are state predicates.                    *)
(*                                                                         *)
(* Numbers are exact rationals <<numerator, denominator>> in lowest terms. *)
(* Results of the external libraries (pypropep, thermo, bamboo) are terms  *)
(* built from the arguments of the call, so equal arguments give equal     *)
(* results; the arrays returned by steady_heating_analysis and the value   *)
(* of isp are integers computed from the analysed engine and from `lib`,   *)
(* a parameter chosen once that ranges over behaviours of the library.     *)
(***************************************************************************)
EXTENDS Integers, Sequences, FiniteSets, TLC

(* ----------------------------- bounds --------------------------------- *)
\* lib ranges over 0..MaxLib
MaxLib == 1
\* length of the profiles returned by steady_heating_analysis in the model
\* (the scripts ask for number_of_points = 250)
ProfileLen == 3

(* --------------------------- rationals -------------------------------- *)
Abs(x) == IF x < 0 THEN -x ELSE x

RECURSIVE GCD(_, _)
GCD(a, b) == IF b = 0 THEN a ELSE GCD(b, a % b)

\* n/d in lowest terms with a positive denominator
Frac(n, d) ==
    LET s == IF d < 0 THEN -1 ELSE 1
        g == GCD(Abs(n), Abs(d))
    IN  <<(s * n) \div g, (s * d) \div g>>

Num(q) == q[1]
Den(q) == q[2]
Whole(n) == <<n, 1>>
Add(a, b) == Frac(Num(a) * Den(b) + Num(b) * Den(a), Den(a) * Den(b))
Sub(a, b) == Frac(Num(a) * Den(b) - Num(b) * Den(a), Den(a) * Den(b))
Mul(a, b) == Frac(Num(a) * Num(b), Den(a) * Den(b))
Div(a, b) == Frac(Num(a) * Den(b), Den(a) * Num(b))

(* ------------------------- numpy helpers ------------------------------ *)
\* np.linspace(start, stop, num)[k], k = 0..num-1
Linspace(start, stop, num, k) ==
    Add(start, Mul(Whole(k), Div(Sub(stop, start), Whole(num - 1))))

\* np.zeros(n): indices 0..n-1
Zeros(n) == [k \in 0..(n - 1) |-> 0]

\* seq[k] with Python indexing (0-based, negative from the end)
PyIndex(seq, k) == IF k >= 0 THEN seq[k + 1] ELSE seq[Len(seq) + k + 1]

RECURSIVE AmaxFrom(_, _)
AmaxFrom(seq, j) ==
    IF j = Len(seq) THEN seq[j]
    ELSE LET rest == AmaxFrom(seq, j + 1)
         IN  IF seq[j] > rest THEN seq[j] ELSE rest

\* a wrong np.amax: the first element
AmaxFirst(seq) == seq[1]

\* np.amax(seq)
Amax(seq) == AmaxFrom(seq, 1)

\* an unassigned name, or an attribute the engine does not have yet
Unset == [set |-> FALSE]

(* -------------------- external library results ------------------------ *)
\* ppp.Equilibrium() / ppp.ShiftingPerformance(): no propellants, no state
NewSolver(kind) == [kind |-> kind, propellants |-> <<>>, state |-> Unset]

\* e.properties.<name> and e.composition[<species>] of a solved object
EqProperty(e, name) == [property |-> name, of |-> e]
EqComposition(e, species) == [composition |-> species, of |-> e]

\* thermo.mixture.Mixture(IDs, ws = ...) and Mixture(IDs, zs = ...)
MixtureWs(IDs, ws) == [IDs |-> IDs, ws |-> ws]
MixtureZs(IDs, zs) == [IDs |-> IDs, zs |-> zs]

\* mass fraction of component k of a mixture given by mass proportions ws
MassFraction(ws, k) == Div(ws[k], Add(ws[1], ws[2]))

\* cool.TransportProperties(model = "thermo", thermo_object, force_phase)
TransportProperties(thermo_object, force_phase) ==
    [model |-> "thermo", thermo_object |-> thermo_object, force_phase |-> force_phase]

\* bam.PerfectGas, bam.ChamberConditions, bam.Nozzle.from_engine_components
PerfectGas(gamma, cp) == [gamma |-> gamma, cp |-> cp]
ChamberConditions(p0, T0, mdot) == [p0 |-> p0, T0 |-> T0, mdot |-> mdot]
NozzleFromEngineComponents(perfect_gas, chamber_conditions, p_amb) ==
    [perfect_gas |-> perfect_gas, chamber_conditions |-> chamber_conditions,
     p_amb |-> p_amb, type |-> "rao", length_fraction |-> Frac(8, 10)]

\* bam.Engine(perfect_gas, chamber_conditions, nozzle); id tells objects apart
Engine(id, perfect_gas, chamber_conditions, nozzle) ==
    [id |-> id, perfect_gas |-> perfect_gas, chamber_conditions |-> chamber_conditions,
     nozzle |-> nozzle, geometry |-> Unset, exhaust_transport |-> Unset,
     ablative |-> Unset, cooling_jacket |-> Unset]

\* L_star*nozzle.At/Ac
ChamberLength(L_star, nozzle, Ac) ==
    [L_star |-> L_star, At |-> [attr |-> "At", of |-> nozzle], Ac |-> Ac]

\* the arguments of add_cooling_jacket(..., configuration = "vertical", channel_height = h)
VerticalJacket(wall_material, inlet_T, p_tank, coolant_transport, mdot_coolant, h) ==
    [wall_material |-> wall_material, inlet_T |-> inlet_T, inlet_p0 |-> p_tank,
     coolant_transport |-> coolant_transport, mdot_coolant |-> mdot_coolant,
     configuration |-> "vertical", channel_height |-> h]

\* a number the library's results depend on: it differs between sweep points
EngineKey(eng) ==
    IF eng.cooling_jacket = Unset THEN 0
    ELSE LET j == eng.cooling_jacket
             h == j.channel_height
             w == j.coolant_transport.thermo_object.ws[2]
         IN  (13 * Num(h) + (Den(h) % 89) + 31 * Num(w) + 3 * Den(w)
              + (Num(j.inlet_p0) \div 100000)) % 97

\* white_dwarf.steady_heating_analysis(number_of_points, to_json = False):
\* the two arrays of the returned dictionary that the scripts read
SteadyHeatingAnalysis(eng, l) ==
    [T_wall_inner |-> [j \in 1..ProfileLen |->
                          400 + ((EngineKey(eng) * (j + l) + 17 * j * j + 29 * l) % 211)],
     p_coolant    |-> [j \in 1..ProfileLen |->
                          (Num(eng.cooling_jacket.inlet_p0) \div Den(eng.cooling_jacket.inlet_p0))
                          - (j - 1) * (1000 + 10 * EngineKey(eng) + l)]]

\* white_dwarf.isp(p_amb)
Isp(eng, p_amb, l) == 200 + ((3 * EngineKey(eng) + 7 * l + (Num(p_amb) % 5)) % 50)

(* ------------------- variable_channel_height.py ----------------------- *)
\* Ac = np.pi*0.1**2, kept as a multiple of pi
H_Ac == [pi_times |-> Frac(1, 100)]
H_L_star == Frac(15, 10)
H_wall_thickness == Frac(2, 1000)
H_pc == Whole(1500000)
H_p_tank == Whole(5000000)
H_mdot == Frac(54489, 10000)
H_p_amb == Whole(101325)
H_OF_ratio == Frac(35, 10)
H_water_mass_fraction == Frac(10, 100)
H_wall_material == "CopperC700"
H_mdot_coolant == Div(H_mdot, Add(H_OF_ratio, Whole(1)))
H_inlet_T == Frac(29815, 100)
\* the value passed as P to e.set_state: pc/1e5
H_set_state_P == Div(H_pc, Whole(100000))
\* the number of sweep values: np.linspace(0.5e-3, 5e-3, 20)
H_num == 20
H_linspace(k) == Linspace(Frac(5, 10000), Frac(5, 1000), H_num, k)

(* ----------------------- variable_water.py ---------------------------- *)
W_Ac == [pi_times |-> Frac(1, 100)]
W_L_star == Frac(15, 10)
W_wall_thickness == Frac(2, 1000)
W_pc == Whole(1500000)
W_p_tank == Whole(2000000)
W_mdot == Frac(54489, 10000)
W_p_amb == Whole(101325)
W_OF_ratio == Frac(35, 10)
W_wall_material == "CopperC700"
W_mdot_coolant == Div(W_mdot, Add(W_OF_ratio, Whole(1)))
W_inlet_T == Frac(29815, 100)
\* the value passed as P to e.set_state and p.set_state: pc/p_amb
W_set_state_P == Div(W_pc, W_p_amb)
\* channel_height = 0.001
W_channel_height == Frac(1, 1000)
\* the number of sweep values: np.linspace(0, 0.8, 20)
W_num == 20
W_linspace(k) == Linspace(Whole(0), Frac(8, 10), W_num, k)

(* ------------------------------ state --------------------------------- *)
\* ch: the names of variable_channel_height.py; wt: those of variable_water.py
\*     (module globals and the locals of the running call); in each,
\*     loc is the next statement, iter the position of the range iterator,
\*     log the calls made so far, analyses one entry per
\*     steady_heating_analysis call (the engine analysed and the data returned),
\*     plots the figures shown.
\* lib: which behaviour the external libraries have in this run.
VARIABLES ch, wt, lib
vars == <<ch, wt, lib>>

Call(op, engine_id) == [op |-> op, engine |-> engine_id]

Init ==
    /\ lib \in 0..MaxLib
    /\ ch = [loc |-> "add_propellants", e |-> Unset,
             gamma |-> Unset, cp |-> Unset, Tc |-> Unset,
             thermo_coolant |-> Unset, thermo_gas |-> Unset,
             gas_transport |-> Unset, coolant_transport |-> Unset,
             perfect_gas |-> Unset, chamber_conditions |-> Unset, nozzle |-> Unset,
             white_dwarf |-> Unset, chamber_length |-> Unset,
             heights |-> <<>>, isps |-> <<>>, max_inner_wall_Ts |-> <<>>,
             pressure_drop |-> <<>>, iter |-> 0, i |-> Unset, data |-> Unset,
             log |-> <<>>, analyses |-> <<>>, plots |-> <<>>]
    /\ wt = [loc |-> "arrays", water_mass_fraction |-> Unset, e |-> Unset, p |-> Unset,
             gamma |-> Unset, cp |-> Unset, Tc |-> Unset,
             thermo_coolant |-> Unset, thermo_gas |-> Unset,
             gas_transport |-> Unset, coolant_transport |-> Unset,
             perfect_gas |-> Unset, chamber_conditions |-> Unset, nozzle |-> Unset,
             white_dwarf |-> Unset, chamber_length |-> Unset, engines |-> 0,
             water_mass_fractions |-> <<>>, isps |-> <<>>, max_inner_wall_Ts |-> <<>>,
             iter |-> 0, i |-> Unset, cooling_data |-> Unset, returned |-> Unset,
             log |-> <<>>, analyses |-> <<>>, plots |-> <<>>]

(* -------------- actions of variable_channel_height.py ----------------- *)
\* lines 34-43: ppp.init(), e = ppp.Equilibrium(), e.add_propellants_by_mass
H_AddPropellants ==
    /\ ch.loc = "add_propellants"
    /\ ch' = [ch EXCEPT
                !.e = [NewSolver("Equilibrium") EXCEPT
                          !.propellants = << <<"ISOPROPYL ALCOHOL", Sub(Whole(1), H_water_mass_fraction)>>,
                                             <<"WATER", H_water_mass_fraction>>,
                                             <<"NITROUS OXIDE", H_OF_ratio>> >>],
                !.log = Append(@, Call("add_propellants_by_mass", 0)),
                !.loc = "set_state"]
    /\ UNCHANGED <<wt, lib>>

\* lines 46-50: e.set_state(P = pc/1e5, type='HP'); gamma, cp, Tc
H_SetState ==
    /\ ch.loc = "set_state"
    /\ LET solved == [ch.e EXCEPT !.state = [P |-> H_set_state_P, type |-> "HP"]]
       IN  ch' = [ch EXCEPT
                    !.e = solved,
                    !.gamma = EqProperty(solved, "Isex"),
                    !.cp = [times |-> 1000, x |-> EqProperty(solved, "Cp")],
                    !.Tc = EqProperty(solved, "T"),
                    !.log = Append(@, Call("set_state", 0)),
                    !.loc = "transport"]
    /\ UNCHANGED <<wt, lib>>

\* lines 53-57: the thermo mixtures and the two TransportProperties objects
H_Transport ==
    /\ ch.loc = "transport"
    /\ LET coolant == MixtureWs(<<"isopropanol", "water">>,
                                <<Sub(Whole(1), H_water_mass_fraction), H_water_mass_fraction>>)
           gas == MixtureZs(<<"N2", "H2O", "CO2">>,
                            <<EqComposition(ch.e, "N2"), EqComposition(ch.e, "H2O"),
                              EqComposition(ch.e, "CO2")>>)
       IN  ch' = [ch EXCEPT
                    !.thermo_coolant = coolant,
                    !.thermo_gas = gas,
                    !.gas_transport = TransportProperties(gas, "g"),
                    !.coolant_transport = TransportProperties(coolant, "l"),
                    !.log = @ \o <<Call("TransportProperties gas", 0),
                                   Call("TransportProperties coolant", 0)>>,
                    !.loc = "engine"]
    /\ UNCHANGED <<wt, lib>>

\* lines 60-64: perfect_gas, chamber_conditions, nozzle, white_dwarf, chamber_length
H_CreateEngine ==
    /\ ch.loc = "engine"
    /\ LET pg == PerfectGas(ch.gamma, ch.cp)
           cc == ChamberConditions(H_pc, ch.Tc, H_mdot)
           nz == NozzleFromEngineComponents(pg, cc, H_p_amb)
       IN  ch' = [ch EXCEPT
                    !.perfect_gas = pg,
                    !.chamber_conditions = cc,
                    !.nozzle = nz,
                    !.white_dwarf = Engine(1, pg, cc, nz),
                    !.chamber_length = ChamberLength(H_L_star, nz, H_Ac),
                    !.log = @ \o <<Call("Nozzle.from_engine_components", 0), Call("Engine", 1)>>,
                    !.loc = "add_geometry"]
    /\ UNCHANGED <<wt, lib>>

\* line 67: white_dwarf.add_geometry(chamber_length, Ac, wall_thickness)
H_AddGeometry ==
    /\ ch.loc = "add_geometry"
    /\ ch' = [ch EXCEPT
                !.white_dwarf.geometry = [chamber_length |-> ch.chamber_length,
                                          chamber_area |-> H_Ac,
                                          wall_thickness |-> H_wall_thickness],
                !.log = Append(@, Call("add_geometry", ch.white_dwarf.id)),
                !.loc = "add_exhaust_transport"]
    /\ UNCHANGED <<wt, lib>>

\* a script that forgets line 68
H_SkipExhaustTransport ==
    /\ ch.loc = "add_exhaust_transport"
    /\ ch' = [ch EXCEPT !.loc = "add_ablative"]
    /\ UNCHANGED <<wt, lib>>

\* line 68: white_dwarf.add_exhaust_transport(gas_transport)
H_AddExhaustTransport ==
    /\ ch.loc = "add_exhaust_transport"
    /\ ch' = [ch EXCEPT
                !.white_dwarf.exhaust_transport = ch.gas_transport,
                !.log = Append(@, Call("add_exhaust_transport", ch.white_dwarf.id)),
                !.loc = "add_ablative"]
    /\ UNCHANGED <<wt, lib>>

\* line 69: white_dwarf.add_ablative(Graphite, CopperC700, regression_rate, xs, ablative_thickness)
H_AddAblative ==
    /\ ch.loc = "add_ablative"
    /\ ch' = [ch EXCEPT
                !.white_dwarf.ablative = [ablative_material |-> "Graphite",
                                          wall_material |-> "CopperC700",
                                          regression_rate |-> Frac(33, 10000000),
                                          xs |-> <<-100, 100>>,
                                          ablative_thickness |-> "None"],
                !.log = Append(@, Call("add_ablative", ch.white_dwarf.id)),
                !.loc = "arrays"]
    /\ UNCHANGED <<wt, lib>>

\* lines 80-83: heights, isps, max_inner_wall_Ts, pressure_drop
H_Arrays ==
    /\ ch.loc = "arrays"
    /\ ch' = [ch EXCEPT
                !.heights = [k \in 0..(H_num - 1) |-> H_linspace(k)],
                !.isps = Zeros(H_num),
                !.max_inner_wall_Ts = Zeros(H_num),
                !.pressure_drop = Zeros(H_num),
                !.iter = 0,
                !.loc = "for"]
    /\ UNCHANGED <<wt, lib>>

\* line 85: for i in range(len(heights))
H_For ==
    /\ ch.loc = "for"
    /\ IF ch.iter < H_num
       THEN ch' = [ch EXCEPT !.i = ch.iter, !.iter = @ + 1, !.loc = "get_data"]
       ELSE ch' = [ch EXCEPT !.loc = "plot"]
    /\ UNCHANGED <<wt, lib>>

\* a sweep that never moves on from the first height
H_channel_height_first == ch.heights[0]

\* the channel height the jacket of this iteration is built with: heights[i]
H_channel_height == ch.heights[ch.i]

\* lines 86, 72: get_data(heights[i]) calls white_dwarf.add_cooling_jacket
H_AddCoolingJacket ==
    /\ ch.loc = "get_data"
    /\ ch' = [ch EXCEPT
                !.white_dwarf.cooling_jacket =
                    VerticalJacket(H_wall_material, H_inlet_T, H_p_tank,
                                   ch.coolant_transport, H_mdot_coolant, H_channel_height),
                !.log = Append(@, Call("add_cooling_jacket", ch.white_dwarf.id)),
                !.loc = "analysis"]
    /\ UNCHANGED <<wt, lib>>

\* lines 78, 86: white_dwarf.steady_heating_analysis(...), returned into data
H_Analysis ==
    /\ ch.loc = "analysis"
    /\ LET result == SteadyHeatingAnalysis(ch.white_dwarf, lib)
       IN  ch' = [ch EXCEPT
                    !.data = result,
                    !.analyses = Append(@, [index |-> ch.i, engine |-> ch.white_dwarf,
                                            data |-> result]),
                    !.log = Append(@, Call("steady_heating_analysis", ch.white_dwarf.id)),
                    !.loc = "store"]
    /\ UNCHANGED <<wt, lib>>

\* an off-by-one store: the slot before i
H_store_previous == IF ch.i = 0 THEN 0 ELSE ch.i - 1

\* the index the results of iteration i are stored at
H_store_index == ch.i

\* data["p_coolant"][0] - data["p_coolant"][-1]
H_PressureDrop(p_coolant) == PyIndex(p_coolant, 0) - PyIndex(p_coolant, -1)

\* lines 87-89: max_inner_wall_Ts[i], pressure_drop[i], print
H_Store ==
    /\ ch.loc = "store"
    /\ ch' = [ch EXCEPT
                !.max_inner_wall_Ts[H_store_index] = Amax(ch.data.T_wall_inner),
                !.pressure_drop[H_store_index] = H_PressureDrop(ch.data.p_coolant),
                !.loc = "for"]
    /\ UNCHANGED <<wt, lib>>

\* lines 91-104: one figure, T_axs and p_axs, then plt.show()
H_Plot ==
    /\ ch.loc = "plot"
    /\ ch' = [ch EXCEPT
                !.plots = Append(@,
                    [x |-> [k \in 0..(H_num - 1) |-> Div(ch.heights[k], Frac(1, 1000))],
                     T_axs |-> [k \in 0..(H_num - 1) |->
                                   Sub(Whole(ch.max_inner_wall_Ts[k]), Frac(27315, 100))],
                     p_axs |-> [k \in 0..(H_num - 1) |->
                                   Div(Whole(ch.pressure_drop[k]), Whole(100000))]]),
                !.log = Append(@, Call("plt.show", 0)),
                !.loc = "done"]
    /\ UNCHANGED <<wt, lib>>

(* ------------------ actions of variable_water.py ---------------------- *)
\* lines 90-92: water_mass_fractions, isps, max_inner_wall_Ts
W_Arrays ==
    /\ wt.loc = "arrays"
    /\ wt' = [wt EXCEPT
                !.water_mass_fractions = [k \in 0..(W_num - 1) |-> W_linspace(k)],
                !.isps = Zeros(W_num),
                !.max_inner_wall_Ts = Zeros(W_num),
                !.iter = 0,
                !.loc = "for"]
    /\ UNCHANGED <<ch, lib>>

\* line 94: for i in range(len(water_mass_fractions))
W_For ==
    /\ wt.loc = "for"
    /\ IF wt.iter < W_num
       THEN wt' = [wt EXCEPT !.i = wt.iter, !.iter = @ + 1, !.loc = "call"]
       ELSE wt' = [wt EXCEPT !.loc = "plot"]
    /\ UNCHANGED <<ch, lib>>

\* lines 95, 12: white_dwarf_cooling_data(water_mass_fractions[i]) is entered;
\* the locals of the call are fresh
W_Call ==
    /\ wt.loc = "call"
    /\ wt' = [wt EXCEPT
                !.water_mass_fraction = wt.water_mass_fractions[wt.i],
                !.e = Unset, !.p = Unset, !.gamma = Unset, !.cp = Unset, !.Tc = Unset,
                !.thermo_coolant = Unset, !.thermo_gas = Unset,
                !.gas_transport = Unset, !.coolant_transport = Unset,
                !.perfect_gas = Unset, !.chamber_conditions = Unset, !.nozzle = Unset,
                !.white_dwarf = Unset, !.chamber_length = Unset,
                !.cooling_data = Unset,
                !.loc = "add_propellants"]
    /\ UNCHANGED <<ch, lib>>

\* the list given to add_propellants_by_mass (lines 41-43 and 45-47)
W_propellants ==
    << <<"ISOPROPYL ALCOHOL", Whole(1)>>,
       <<"WATER", wt.water_mass_fraction>>,
       <<"NITROUS OXIDE", W_OF_ratio>> >>

\* lines 32-47: ppp.init(), e, p, add_propellants_by_mass on both
W_AddPropellants ==
    /\ wt.loc = "add_propellants"
    /\ wt' = [wt EXCEPT
                !.e = [NewSolver("Equilibrium") EXCEPT !.propellants = W_propellants],
                !.p = [NewSolver("ShiftingPerformance") EXCEPT !.propellants = W_propellants],
                !.log = @ \o <<Call("add_propellants_by_mass", 0),
                               Call("p.add_propellants_by_mass", 0)>>,
                !.loc = "set_state"]
    /\ UNCHANGED <<ch, lib>>

\* lines 50-57: e.set_state(P = pc/p_amb, type = 'HP'); p.set_state(P = pc/p_amb, Pe = 1);
\* gamma, cp, Tc
W_SetState ==
    /\ wt.loc = "set_state"
    /\ LET solved == [wt.e EXCEPT !.state = [P |-> W_set_state_P, type |-> "HP"]]
       IN  wt' = [wt EXCEPT
                    !.e = solved,
                    !.p = [wt.p EXCEPT !.state = [P |-> W_set_state_P, Pe |-> Whole(1)]],
                    !.gamma = EqProperty(solved, "Isex"),
                    !.cp = [times |-> 1000, x |-> EqProperty(solved, "Cp")],
                    !.Tc = EqProperty(solved, "T"),
                    !.log = @ \o <<Call("set_state", 0), Call("p.set_state", 0)>>,
                    !.loc = "transport"]
    /\ UNCHANGED <<ch, lib>>

\* lines 60-64: the thermo mixtures and the two TransportProperties objects
W_Transport ==
    /\ wt.loc = "transport"
    /\ LET coolant == MixtureWs(<<"isopropanol", "water">>,
                                <<Sub(Whole(1), wt.water_mass_fraction), wt.water_mass_fraction>>)
           gas == MixtureZs(<<"N2", "H2O", "CO2">>,
                            <<EqComposition(wt.e, "N2"), EqComposition(wt.e, "H2O"),
                              EqComposition(wt.e, "CO2")>>)
       IN  wt' = [wt EXCEPT
                    !.thermo_coolant = coolant,
                    !.thermo_gas = gas,
                    !.gas_transport = TransportProperties(gas, "g"),
                    !.coolant_transport = TransportProperties(coolant, "l"),
                    !.log = @ \o <<Call("TransportProperties gas", 0),
                                   Call("TransportProperties coolant", 0)>>,
                    !.loc = "engine"]
    /\ UNCHANGED <<ch, lib>>

\* lines 67-71: perfect_gas, chamber_conditions, nozzle, white_dwarf, chamber_length
W_CreateEngine ==
    /\ wt.loc = "engine"
    /\ LET pg == PerfectGas(wt.gamma, wt.cp)
           cc == ChamberConditions(W_pc, wt.Tc, W_mdot)
           nz == NozzleFromEngineComponents(pg, cc, W_p_amb)
       IN  wt' = [wt EXCEPT
                    !.perfect_gas = pg,
                    !.chamber_conditions = cc,
                    !.nozzle = nz,
                    !.white_dwarf = Engine(wt.engines + 1, pg, cc, nz),
                    !.engines = @ + 1,
                    !.chamber_length = ChamberLength(W_L_star, nz, W_Ac),
                    !.log = @ \o <<Call("Nozzle.from_engine_components", 0),
                                   Call("Engine", wt.engines + 1)>>,
                    !.loc = "add_geometry"]
    /\ UNCHANGED <<ch, lib>>

\* line 74: white_dwarf.add_geometry(chamber_length, Ac, wall_thickness)
W_AddGeometry ==
    /\ wt.loc = "add_geometry"
    /\ wt' = [wt EXCEPT
                !.white_dwarf.geometry = [chamber_length |-> wt.chamber_length,
                                          chamber_area |-> W_Ac,
                                          wall_thickness |-> W_wall_thickness],
                !.log = Append(@, Call("add_geometry", wt.white_dwarf.id)),
                !.loc = "add_exhaust_transport"]
    /\ UNCHANGED <<ch, lib>>

\* line 75: white_dwarf.add_exhaust_transport(gas_transport)
W_AddExhaustTransport ==
    /\ wt.loc = "add_exhaust_transport"
    /\ wt' = [wt EXCEPT
                !.white_dwarf.exhaust_transport = wt.gas_transport,
                !.log = Append(@, Call("add_exhaust_transport", wt.white_dwarf.id)),
                !.loc = "add_cooling_jacket"]
    /\ UNCHANGED <<ch, lib>>

\* the spiral jacket of the commented-out lines 78-79
W_SpiralJacket ==
    [wall_material |-> W_wall_material, inlet_T |-> W_inlet_T, inlet_p0 |-> W_p_tank,
     coolant_transport |-> wt.coolant_transport, mdot_coolant |-> W_mdot_coolant,
     configuration |-> "spiral", channel_height |-> W_channel_height]

\* the arguments of add_cooling_jacket on line 82
W_Jacket ==
    VerticalJacket(W_wall_material, W_inlet_T, W_p_tank, wt.coolant_transport,
                   W_mdot_coolant, W_channel_height)

\* line 82: white_dwarf.add_cooling_jacket(..., configuration = "vertical", channel_height = 0.001)
W_AddCoolingJacket ==
    /\ wt.loc = "add_cooling_jacket"
    /\ wt' = [wt EXCEPT
                !.white_dwarf.cooling_jacket = W_Jacket,
                !.log = Append(@, Call("add_cooling_jacket", wt.white_dwarf.id)),
                !.loc = "analysis"]
    /\ UNCHANGED <<ch, lib>>

\* line 85: cooling_data = white_dwarf.steady_heating_analysis(...)
W_Analysis ==
    /\ wt.loc = "analysis"
    /\ LET result == SteadyHeatingAnalysis(wt.white_dwarf, lib)
       IN  wt' = [wt EXCEPT
                    !.cooling_data = result,
                    !.analyses = Append(@, [index |-> wt.i, engine |-> wt.white_dwarf,
                                            e |-> wt.e, p |-> wt.p,
                                            data |-> result]),
                    !.log = Append(@, Call("steady_heating_analysis", wt.white_dwarf.id)),
                    !.loc = "return"]
    /\ UNCHANGED <<ch, lib>>

\* line 87: return cooling_data, white_dwarf.isp(p_amb)
W_Return ==
    /\ wt.loc = "return"
    /\ wt' = [wt EXCEPT
                !.returned = <<wt.cooling_data, Isp(wt.white_dwarf, W_p_amb, lib)>>,
                !.log = Append(@, Call("isp", wt.white_dwarf.id)),
                !.loc = "store"]
    /\ UNCHANGED <<ch, lib>>

\* lines 95-97: cooling_data, isps[i] = ...; max_inner_wall_Ts[i] = np.amax(...); print
W_Store ==
    /\ wt.loc = "store"
    /\ wt' = [wt EXCEPT
                !.isps[wt.i] = wt.returned[2],
                !.max_inner_wall_Ts[wt.i] = Amax(wt.returned[1].T_wall_inner),
                !.loc = "for"]
    /\ UNCHANGED <<ch, lib>>

\* lines 99-115: one figure, T_axs and isp_axs, the table of isps, then plt.show()
W_Plot ==
    /\ wt.loc = "plot"
    /\ wt' = [wt EXCEPT
                !.plots = Append(@,
                    [x |-> wt.water_mass_fractions,
                     T_axs |-> [k \in 0..(W_num - 1) |->
                                   Sub(Whole(wt.max_inner_wall_Ts[k]), Frac(27315, 100))],
                     isp_axs |-> wt.isps]),
                !.log = Append(@, Call("plt.show", 0)),
                !.loc = "done"]
    /\ UNCHANGED <<ch, lib>>

(* -------------------------- specification ----------------------------- *)
Next ==
    \/ H_AddPropellants \/ H_SetState \/ H_Transport \/ H_CreateEngine
    \/ H_AddGeometry \/ H_AddExhaustTransport \/ H_AddAblative \/ H_Arrays
    \/ H_For \/ H_AddCoolingJacket \/ H_Analysis \/ H_Store \/ H_Plot
    \/ W_Arrays \/ W_For \/ W_Call \/ W_AddPropellants \/ W_SetState \/ W_Transport
    \/ W_CreateEngine \/ W_AddGeometry \/ W_AddExhaustTransport \/ W_AddCoolingJacket
    \/ W_Analysis \/ W_Return \/ W_Store \/ W_Plot

Spec == Init /\ [][Next]_vars

(* ============================ the claims ============================== *)
\* number of sweep points whose results have been stored
H_Stored == IF ch.loc = "store" THEN Len(ch.analyses) - 1 ELSE Len(ch.analyses)
W_Stored == IF wt.loc \in {"return", "store"} THEN Len(wt.analyses) - 1 ELSE Len(wt.analyses)

\* the water proportion given to the equilibrium solve of an analysed engine
SolverOf(a) == a.engine.perfect_gas.gamma.of
Mass(e, k) == e.propellants[k][2]

(* C1: in each script the sweep makes exactly one steady_heating_analysis   *)
(* call per sweep value (20 values), in ascending index order; the outputs  *)
(* derived from the call made for sweep value i are stored at index i of    *)
(* every plotted array; plotting happens exactly once, after all 20 results *)
(* have been stored.                                                        *)
C1_SweepStoresAndPlotsOnce ==
    /\ Len(ch.analyses) = (IF ch.loc \in {"get_data", "analysis"} THEN ch.iter - 1 ELSE ch.iter)
    /\ \A k \in 1..Len(ch.analyses) :
          /\ ch.analyses[k].index = k - 1
          /\ ch.analyses[k].engine.cooling_jacket.channel_height = H_linspace(k - 1)
    /\ \A k \in 0..(H_Stored - 1) :
          /\ ch.max_inner_wall_Ts[k] = Amax(ch.analyses[k + 1].data.T_wall_inner)
          /\ ch.pressure_drop[k] = H_PressureDrop(ch.analyses[k + 1].data.p_coolant)
    /\ Len(ch.plots) = (IF ch.loc = "done" THEN 1 ELSE 0)
    /\ ch.loc \in {"plot", "done"} => Len(ch.analyses) = 20 /\ H_Stored = 20
    /\ ch.loc = "done" =>
          \A k \in 0..19 :
             /\ ch.plots[1].T_axs[k] =
                   Sub(Whole(Amax(ch.analyses[k + 1].data.T_wall_inner)), Frac(27315, 100))
             /\ ch.plots[1].p_axs[k] =
                   Div(Whole(H_PressureDrop(ch.analyses[k + 1].data.p_coolant)), Whole(100000))
    /\ Len(wt.analyses) =
          (IF wt.loc \in {"for", "return", "store", "plot", "done"} THEN wt.iter
           ELSE IF wt.loc = "arrays" THEN 0 ELSE wt.iter - 1)
    /\ \A k \in 1..Len(wt.analyses) :
          /\ wt.analyses[k].index = k - 1
          /\ Mass(SolverOf(wt.analyses[k]), 2) = W_linspace(k - 1)
    /\ \A k \in 0..(W_Stored - 1) :
          /\ wt.max_inner_wall_Ts[k] = Amax(wt.analyses[k + 1].data.T_wall_inner)
          /\ wt.isps[k] = Isp(wt.analyses[k + 1].engine, W_p_amb, lib)
    /\ Len(wt.plots) = (IF wt.loc = "done" THEN 1 ELSE 0)
    /\ wt.loc \in {"plot", "done"} => Len(wt.analyses) = 20 /\ W_Stored = 20
    /\ wt.loc = "done" =>
          \A k \in 0..19 :
             /\ wt.plots[1].T_axs[k] =
                   Sub(Whole(Amax(wt.analyses[k + 1].data.T_wall_inner)), Frac(27315, 100))
             /\ wt.plots[1].isp_axs[k] = Isp(wt.analyses[k + 1].engine, W_p_amb, lib)

\* both scripts have plotted, and the stored results differ between sweep points
C1_Witness ==
    /\ ch.loc = "done" /\ wt.loc = "done"
    /\ Len(ch.plots) = 1 /\ Len(wt.plots) = 1
    /\ ch.max_inner_wall_Ts[0] # ch.max_inner_wall_Ts[19]
    /\ ch.pressure_drop[3] # ch.pressure_drop[4]
    /\ wt.max_inner_wall_Ts[0] # wt.max_inner_wall_Ts[19]
    /\ wt.isps[3] # wt.isps[4]

(* C6: for every sweep point i the stored scalars come from the data        *)
(* returned by the analysis call made for that point: max_inner_wall_Ts[i]  *)
(* is greater than or equal to every element of that call's T_wall_inner    *)
(* and equal to one of them; in the channel-height script pressure_drop[i]  *)
(* is that call's first p_coolant element minus its last.                   *)
C6_StoredScalars ==
    /\ \A k \in 0..(H_Stored - 1) :
          LET d == ch.analyses[k + 1].data
          IN  /\ \A j \in 1..Len(d.T_wall_inner) : ch.max_inner_wall_Ts[k] >= d.T_wall_inner[j]
              /\ \E j \in 1..Len(d.T_wall_inner) : ch.max_inner_wall_Ts[k] = d.T_wall_inner[j]
              /\ ch.pressure_drop[k] = d.p_coolant[1] - d.p_coolant[Len(d.p_coolant)]
    /\ \A k \in 0..(W_Stored - 1) :
          LET d == wt.analyses[k + 1].data
          IN  /\ \A j \in 1..Len(d.T_wall_inner) : wt.max_inner_wall_Ts[k] >= d.T_wall_inner[j]
              /\ \E j \in 1..Len(d.T_wall_inner) : wt.max_inner_wall_Ts[k] = d.T_wall_inner[j]

\* results are stored in both scripts, for profiles whose maximum is neither
\* the first nor the last element and whose pressure falls along the channel
C6_Witness ==
    /\ H_Stored >= 2 /\ W_Stored >= 2
    /\ \E k \in 0..(H_Stored - 1) :
          LET d == ch.analyses[k + 1].data
          IN  /\ ch.max_inner_wall_Ts[k] > d.T_wall_inner[1]
              /\ ch.max_inner_wall_Ts[k] > d.T_wall_inner[Len(d.T_wall_inner)]
              /\ ch.pressure_drop[k] > 0
    /\ \E k \in 0..(W_Stored - 1) :
          LET d == wt.analyses[k + 1].data
          IN  /\ wt.max_inner_wall_Ts[k] > d.T_wall_inner[1]
              /\ wt.max_inner_wall_Ts[k] > d.T_wall_inner[Len(d.T_wall_inner)]

\* the position of the last occurrence of call c before position n of log, or 0
LastBefore(log, c, n) ==
    LET hits == {j \in 1..(n - 1) : log[j] = c}
    IN  IF hits = {} THEN 0 ELSE CHOOSE j \in hits : \A m \in hits : m <= j

\* the calls of chain occur in log before position n, in the order of chain
RECURSIVE InOrderBefore(_, _, _)
InOrderBefore(log, chain, n) ==
    IF chain = <<>> THEN TRUE
    ELSE LET j == LastBefore(log, chain[Len(chain)], n)
         IN  j > 0 /\ InOrderBefore(log, SubSeq(chain, 1, Len(chain) - 1), j)

\* what has to come before an analysis of engine id, in this order
BuildChain(id) ==
    <<Call("add_propellants_by_mass", 0), Call("set_state", 0),
      Call("TransportProperties gas", 0), Call("TransportProperties coolant", 0),
      Call("Nozzle.from_engine_components", 0), Call("Engine", id),
      Call("add_geometry", id), Call("add_exhaust_transport", id),
      Call("add_cooling_jacket", id)>>

\* the engine of analysis entry a is complete and was built from a solved equilibrium
BuiltEngine(a) ==
    /\ a.engine.geometry # Unset
    /\ a.engine.exhaust_transport # Unset
    /\ a.engine.cooling_jacket # Unset
    /\ SolverOf(a).propellants # <<>>
    /\ SolverOf(a).state # Unset
    /\ a.engine.exhaust_transport.thermo_object.zs[1].of = SolverOf(a)
    /\ a.engine.exhaust_transport.force_phase = "g"
    /\ a.engine.cooling_jacket.coolant_transport.force_phase = "l"

(* C2: in each script every steady_heating_analysis call is preceded, in    *)
(* this order, by add_propellants_by_mass, set_state, the construction of   *)
(* the gas and coolant transport objects, of the nozzle and the Engine,     *)
(* add_geometry, add_exhaust_transport and add_cooling_jacket on the engine *)
(* that is analysed; no analysis runs on an engine without geometry,        *)
(* exhaust transport or cooling jacket.                                     *)
C2_AnalysisAfterBuild ==
    /\ \A k \in 1..Len(ch.analyses) : BuiltEngine(ch.analyses[k])
    /\ \A k \in 1..Len(wt.analyses) : BuiltEngine(wt.analyses[k])
    /\ ch.loc = "store" =>
          LET n == Len(ch.log)
          IN  /\ ch.log[n] = Call("steady_heating_analysis", ch.analyses[Len(ch.analyses)].engine.id)
              /\ InOrderBefore(ch.log, BuildChain(ch.log[n].engine), n)
    /\ wt.loc = "return" =>
          LET n == Len(wt.log)
          IN  /\ wt.log[n] = Call("steady_heating_analysis", wt.analyses[Len(wt.analyses)].engine.id)
              /\ InOrderBefore(wt.log, BuildChain(wt.log[n].engine), n)

\* both scripts have just made their second analysis
C2_Witness ==
    /\ ch.loc = "store" /\ ch.i = 1 /\ Len(ch.analyses) = 2
    /\ wt.loc = "return" /\ wt.i = 1 /\ Len(wt.analyses) = 2
    /\ wt.analyses[2].engine.id = 2

\* the number of times op was called
Times(log, op) == Cardinality({j \in 1..Len(log) : log[j].op = op})

\* the inputs of an analysis that do not come from the swept parameter
FixedInputs(a) ==
    LET eng == a.engine
        e == SolverOf(a)
    IN  [pc |-> eng.chamber_conditions.p0,
         mdot |-> eng.chamber_conditions.mdot,
         p_amb |-> eng.nozzle.p_amb,
         nozzle_type |-> eng.nozzle.type,
         length_fraction |-> eng.nozzle.length_fraction,
         L_star |-> eng.geometry.chamber_length.L_star,
         Ac |-> eng.geometry.chamber_area,
         wall_thickness |-> eng.geometry.wall_thickness,
         gas_model |-> [eng.exhaust_transport EXCEPT !.thermo_object = @.IDs],
         ablative |-> eng.ablative,
         wall_material |-> eng.cooling_jacket.wall_material,
         inlet_T |-> eng.cooling_jacket.inlet_T,
         p_tank |-> eng.cooling_jacket.inlet_p0,
         mdot_coolant |-> eng.cooling_jacket.mdot_coolant,
         configuration |-> eng.cooling_jacket.configuration,
         coolant_model |-> [eng.cooling_jacket.coolant_transport EXCEPT !.thermo_object = @.IDs],
         propellants |-> <<e.propellants[1][1], e.propellants[2][1], e.propellants[3][1]>>,
         ipa |-> Mass(e, 1),
         OF_ratio |-> Mass(e, 3),
         equilibrium_state |-> e.state]

(* C3: between two sweep points of one script only the swept parameter      *)
(* differs.  Channel-height script: the equilibrium solve, the transport    *)
(* objects, the engine, geometry, exhaust transport and ablative are set    *)
(* once before the sweep and are not changed by an iteration; an iteration  *)
(* changes only the channel_height of the cooling jacket, and the jacket of *)
(* the i-th analysis is built with heights[i].  Water script: every input   *)
(* other than water_mass_fraction and the values computed from it is the    *)
(* same at every sweep point.                                               *)
C3_OnlySweptParameterDiffers ==
    /\ \A k \in 1..Len(ch.analyses) :
          /\ ch.analyses[k].engine =
                [ch.analyses[1].engine EXCEPT !.cooling_jacket.channel_height = H_linspace(k - 1)]
          /\ SolverOf(ch.analyses[k]) = ch.e
          /\ ch.analyses[k].engine.exhaust_transport = ch.gas_transport
          /\ ch.analyses[k].engine.cooling_jacket.coolant_transport = ch.coolant_transport
          /\ ch.analyses[k].engine.nozzle = ch.nozzle
          /\ ch.analyses[k].engine.id = 1
    /\ ch.loc \in {"for", "get_data", "analysis", "store", "plot", "done"} =>
          \A op \in {"add_propellants_by_mass", "set_state", "TransportProperties gas",
                     "TransportProperties coolant", "Engine", "add_geometry",
                     "add_exhaust_transport", "add_ablative"} : Times(ch.log, op) = 1
    /\ \A k \in 1..Len(wt.analyses) :
          /\ FixedInputs(wt.analyses[k]) = FixedInputs(wt.analyses[1])
          /\ wt.analyses[k].engine.cooling_jacket.channel_height
                = wt.analyses[1].engine.cooling_jacket.channel_height
          /\ wt.analyses[k].p.state = wt.analyses[1].p.state
          /\ Mass(wt.analyses[k].p, 1) = Mass(wt.analyses[1].p, 1)
          /\ Mass(wt.analyses[k].p, 3) = Mass(wt.analyses[1].p, 3)
          /\ Mass(SolverOf(wt.analyses[k]), 2) = W_linspace(k - 1)

\* both sweeps have analysed at least three different sweep points
C3_Witness ==
    /\ Len(ch.analyses) >= 3 /\ Len(wt.analyses) >= 3
    /\ ch.analyses[3].engine # ch.analyses[1].engine
    /\ ch.analyses[3].engine.cooling_jacket.channel_height = Frac(37, 38000)
    /\ wt.analyses[3].engine # wt.analyses[1].engine
    /\ wt.analyses[3].engine.cooling_jacket.coolant_transport.thermo_object.ws[2] = Frac(8, 95)

\* the add_... calls made on engine id before position n of log, in order
EngineCalls(log, id, n) ==
    LET Building(c) == c.engine = id /\ c.op \in {"add_geometry", "add_exhaust_transport",
                                                   "add_ablative", "add_cooling_jacket"}
        Ops(s) == [j \in 1..Len(s) |-> s[j].op]
    IN  Ops(SelectSeq(SubSeq(log, 1, n - 1), Building))

\* the isopropyl alcohol proportion as a function of the water proportion w
IpaRules == {"1-w", "1"}
IpaByRule(r, w) == IF r = "1-w" THEN Sub(Whole(1), w) ELSE Whole(1)

\* the fixed inputs the two scripts share
SharedInputs(a) ==
    LET f == FixedInputs(a)
    IN  [pc |-> f.pc, mdot |-> f.mdot, OF_ratio |-> f.OF_ratio,
         wall_material |-> f.wall_material, inlet_T |-> f.inlet_T,
         mdot_coolant |-> f.mdot_coolant, configuration |-> f.configuration]

(* C4 as claimed: apart from the swept parameter the two scripts use the    *)
(* same fixed inputs (chamber pressure, p_tank, mass flow, O/F ratio, wall  *)
(* material, coolant inlet temperature, propellant proportions as a         *)
(* function of the water fraction, pressure given to the equilibrium solve) *)
(* and make the same engine-building calls (add_geometry,                   *)
(* add_exhaust_transport, add_cooling_jacket "vertical") before an analysis.*)
C4_Original ==
    /\ \A k \in 1..Len(ch.analyses) : \A m \in 1..Len(wt.analyses) :
          LET a == ch.analyses[k]
              b == wt.analyses[m]
          IN  /\ SharedInputs(a) = SharedInputs(b)
              /\ FixedInputs(a).p_tank = FixedInputs(b).p_tank
              /\ FixedInputs(a).equilibrium_state = FixedInputs(b).equilibrium_state
              /\ a.engine.ablative = b.engine.ablative
              /\ a.engine.cooling_jacket.configuration = "vertical"
    /\ \E r \in IpaRules :
          /\ \A k \in 1..Len(ch.analyses) :
                Mass(SolverOf(ch.analyses[k]), 1) = IpaByRule(r, Mass(SolverOf(ch.analyses[k]), 2))
          /\ \A m \in 1..Len(wt.analyses) :
                Mass(SolverOf(wt.analyses[m]), 1) = IpaByRule(r, Mass(SolverOf(wt.analyses[m]), 2))

(* C4 as amended: the two scripts share chamber pressure, mass flow, O/F    *)
(* ratio, wall material, coolant inlet temperature, coolant mass flow and   *)
(* the "vertical" jacket configuration, give the water proportion and the   *)
(* O/F ratio to the equilibrium solve in the same way, and call             *)
(* add_geometry, add_exhaust_transport and add_cooling_jacket in this order *)
(* on an engine before its first analysis.  They differ in p_tank (50e5 and *)
(* 20e5 Pa), in the isopropyl alcohol proportion (1 - w and 1), in the      *)
(* pressure given to the equilibrium solve (pc/1e5 and pc/p_amb), and the   *)
(* channel-height script also calls add_ablative, once, and before later    *)
(* analyses only add_cooling_jacket again.                                  *)
C4_SharedPipeline ==
    /\ Cardinality({SharedInputs(ch.analyses[k]) : k \in 1..Len(ch.analyses)}
                   \cup {SharedInputs(wt.analyses[m]) : m \in 1..Len(wt.analyses)}) <= 1
    /\ \A k \in 1..Len(ch.analyses) :
          LET a == ch.analyses[k]
          IN  /\ a.engine.cooling_jacket.configuration = "vertical"
              /\ Mass(SolverOf(a), 2) = a.engine.cooling_jacket.coolant_transport.thermo_object.ws[2]
              /\ Mass(SolverOf(a), 3) = Frac(35, 10)
              /\ a.engine.cooling_jacket.inlet_p0 = Whole(5000000)
              /\ Mass(SolverOf(a), 1) = IpaByRule("1-w", Mass(SolverOf(a), 2))
              /\ SolverOf(a).state.P = Whole(15)
              /\ a.engine.ablative # Unset
    /\ \A m \in 1..Len(wt.analyses) :
          LET b == wt.analyses[m]
          IN  /\ b.engine.cooling_jacket.configuration = "vertical"
              /\ Mass(SolverOf(b), 2) = b.engine.cooling_jacket.coolant_transport.thermo_object.ws[2]
              /\ Mass(SolverOf(b), 3) = Frac(35, 10)
              /\ b.engine.cooling_jacket.inlet_p0 = Whole(2000000)
              /\ Mass(SolverOf(b), 1) = IpaByRule("1", Mass(SolverOf(b), 2))
              /\ SolverOf(b).state.P = Frac(1500000, 101325)
              /\ b.engine.ablative = Unset
    /\ ch.loc = "store" =>
          EngineCalls(ch.log, 1, Len(ch.log)) =
             <<"add_geometry", "add_exhaust_transport", "add_ablative">>
             \o [j \in 1..Len(ch.analyses) |-> "add_cooling_jacket"]
    /\ wt.loc = "return" =>
          EngineCalls(wt.log, wt.white_dwarf.id, Len(wt.log)) =
             <<"add_geometry", "add_exhaust_transport", "add_cooling_jacket">>

\* both scripts have analysed two sweep points and have just made an analysis
C4_Witness ==
    /\ ch.loc = "store" /\ Len(ch.analyses) = 2
    /\ wt.loc = "return" /\ Len(wt.analyses) = 2
    /\ Mass(SolverOf(wt.analyses[2]), 2) = Frac(4, 95)

\* one standard atmosphere in Pa: the value of p_amb
StandardAtmosphere == 101325

(* C5: both scripts give the equilibrium solve the chamber pressure in      *)
(* atmospheres, pc in Pa divided by 101325 Pa; in the water script the      *)
(* ShiftingPerformance object receives the same chamber pressure, an exit   *)
(* pressure of 1 atmosphere, and the propellant list of the Equilibrium     *)
(* object.                                                                  *)
C5_PressureInAtmospheres ==
    /\ (ch.e # Unset /\ ch.e.state # Unset) =>
          ch.e.state.P = Div(H_pc, Whole(StandardAtmosphere))
    /\ (wt.e # Unset /\ wt.e.state # Unset) =>
          /\ wt.e.state.P = Div(W_pc, Whole(StandardAtmosphere))
          /\ wt.p.state.P = wt.e.state.P
          /\ wt.p.state.Pe = Whole(1)
          /\ wt.p.propellants = wt.e.propellants

\* the water share of the fuel given to the equilibrium solve
WaterShareOfFuel(e) == Div(Mass(e, 2), Add(Mass(e, 1), Mass(e, 2)))

(* C7: at every sweep point of each script the water share of the fuel      *)
(* given to the equilibrium solve, water / (isopropyl alcohol + water),     *)
(* equals the water mass fraction of the coolant mixture.                   *)
C7_WaterFractionConsistent ==
    /\ \A k \in 1..Len(ch.analyses) :
          WaterShareOfFuel(SolverOf(ch.analyses[k])) =
             MassFraction(ch.analyses[k].engine.cooling_jacket.coolant_transport.thermo_object.ws, 2)
    /\ \A k \in 1..Len(wt.analyses) :
          WaterShareOfFuel(SolverOf(wt.analyses[k])) =
             MassFraction(wt.analyses[k].engine.cooling_jacket.coolant_transport.thermo_object.ws, 2)

\* the fuel's share of the propellant mass flow mdot
FuelFlow(e, mdot) ==
    LET fuel == Add(Mass(e, 1), Mass(e, 2))
    IN  Mul(mdot, Div(fuel, Add(fuel, Mass(e, 3))))

(* C8: at every sweep point of each script the nitrous oxide mass divided   *)
(* by the fuel mass (isopropyl alcohol + water) given to the equilibrium    *)
(* solve is OF_ratio = 3.5, so the coolant mass flow mdot/(OF_ratio + 1) is *)
(* the fuel's share of the propellant mass flow mdot.                       *)
C8_OxidiserFuelRatio ==
    /\ \A k \in 1..Len(ch.analyses) :
          LET a == ch.analyses[k]
              e == SolverOf(a)
          IN  /\ Div(Mass(e, 3), Add(Mass(e, 1), Mass(e, 2))) = Frac(35, 10)
              /\ a.engine.cooling_jacket.mdot_coolant = FuelFlow(e, a.engine.chamber_conditions.mdot)
    /\ \A k \in 1..Len(wt.analyses) :
          LET a == wt.analyses[k]
              e == SolverOf(a)
          IN  /\ Div(Mass(e, 3), Add(Mass(e, 1), Mass(e, 2))) = Frac(35, 10)
              /\ a.engine.cooling_jacket.mdot_coolant = FuelFlow(e, a.engine.chamber_conditions.mdot)

====
